---- MODULE Spec2Model ----
(***************************************************************************)
(* Model of the Online Course Recommendation App (app.py, dashboard.py).   *)
(*                                                                         *)
(* A string is a sequence of one-character strings.  A DataFrame is a      *)
(* record [columns, rows]; a row keeps its position in the catalog as its  *)
(* identity, so a DataFrame derived from df is a sequence of positions of  *)
(* df.rows.  Positions are 1-based here and 0-based in the Python source.  *)
(***************************************************************************)
EXTENDS Integers, Sequences, FiniteSets, TLC

VARIABLES df, cosine_mat, call, ret

vars == <<df, cosine_mat, call, ret>>

(***************************************************************************)
(* Bounds of the model.                                                    *)
(***************************************************************************)
MaxN == 3        \* records in a catalog
MaxLen == 2      \* characters in an enumerated search term
MaxK == 3        \* num_rec asked of recommend_course
MaxSubs == 2     \* num_subscribers of a record in the dashboard catalogs
MaxPriceLen == 2 \* characters in an enumerated price string

(***************************************************************************)
(* Python values.                                                          *)
(***************************************************************************)
\* Python's None where a string is expected; no string has this element.
None == <<"None">>

\* pandas' NaN (a missing value) in a column of subjects; no subject is "NaN"
NaN == "NaN"

Min(a, b) == IF a < b THEN a ELSE b

\* all strings over the alphabet A with at most n characters
Strs(A, n) == UNION {[1..m -> A] : m \in 0..n}

LowerCase ==
    <<"a","b","c","d","e","f","g","h","i","j","k","l","m",
      "n","o","p","q","r","s","t","u","v","w","x","y","z">>

UpperCase ==
    <<"A","B","C","D","E","F","G","H","I","J","K","L","M",
      "N","O","P","Q","R","S","T","U","V","W","X","Y","Z">>

Whitespace == {" ", "\t", "\n"}

\* str.upper() on one character
upper_char(ch) ==
    IF \E i \in 1..Len(LowerCase) : LowerCase[i] = ch
    THEN UpperCase[CHOOSE i \in 1..Len(LowerCase) : LowerCase[i] = ch]
    ELSE ch

\* str.upper()
upper(s) == [i \in 1..Len(s) |-> upper_char(s[i])]

RECURSIVE lstrip(_)
lstrip(s) ==
    IF s # << >> /\ Head(s) \in Whitespace THEN lstrip(Tail(s)) ELSE s

RECURSIVE rstrip(_)
rstrip(s) ==
    IF s # << >> /\ s[Len(s)] \in Whitespace
    THEN rstrip(SubSeq(s, 1, Len(s) - 1))
    ELSE s

\* no stripping at all
no_strip(s) == s

\* str.strip()
strip(s) == rstrip(lstrip(s))

\* Python's `pat in x` on strings
str_in(pat, x) ==
    \E i \in 0..(Len(x) - Len(pat)) : SubSeq(x, i + 1, i + Len(pat)) = pat

\* the positions of s, in order, whose element satisfies keep
RECURSIVE positions_where(_, _, _)
positions_where(mask, i, n) ==
    IF i > n THEN << >>
    ELSE (IF mask[i] THEN <<i>> ELSE << >>) \o positions_where(mask, i + 1, n)

(***************************************************************************)
(* app.py: keyword search.                                                 *)
(***************************************************************************)
\* Series.str.contains(pat, case=True, regex=False): `pat in x`
str_contains_case_sensitive(x, pat) == str_in(pat, x)

\* Series.str.contains(pat, case=False, na=False, regex=False) on one value:
\* pandas compares pat.upper() with x.upper()
str_contains(x, pat) == str_in(upper(pat), upper(x))

\* search_term: [raised, rows]; rows are the positions df[mask] keeps
search_term(term, d) ==
    IF "course_title" \notin d.columns
    THEN [raised |-> "KeyError", rows |-> << >>]
    ELSE IF term = None \/ strip(term) = << >>
    THEN [raised |-> "none", rows |-> << >>]
    ELSE LET n == Len(d.rows)
             mask == [i \in 1..n |-> str_contains(d.rows[i].course_title, term)]
         IN  [raised |-> "none", rows |-> positions_where(mask, 1, n)]

(***************************************************************************)
(* app.py: the similarity matrix.  build_tfidf_matrix returns              *)
(* cosine_similarity(tfidf_matrix); the TF-IDF arithmetic is not modelled: *)
(* the matrix is any symmetric matrix over Scores in which a row with a    *)
(* non-zero vector has One on the diagonal and the row of an all-zero      *)
(* vector (an empty clean title, or one made of stop words) is all zero.   *)
(* Scores are in units of one half.                                        *)
(***************************************************************************)
One == 2

Scores == 0..One

Pairs(n) == {p \in (1..n) \X (1..n) : p[1] < p[2]}

cosine_similarity(n, zero, f) ==
    [i \in 1..n |-> [j \in 1..n |->
        IF i \in zero \/ j \in zero THEN 0
        ELSE IF i = j THEN One
        ELSE IF i < j THEN f[<<i, j>>] ELSE f[<<j, i>>]]]

\* rows of similarity One are the same vector, so they score alike everywhere
SameVectorsAgree(m) ==
    \A i, j \in 1..Len(m) :
        (i # j /\ m[i][j] = One) => \A k \in 1..Len(m) : m[i][k] = m[j][k]

CosineMats(n) ==
    {m \in {cosine_similarity(n, zero, f) :
                zero \in SUBSET (1..n), f \in [Pairs(n) -> Scores]} :
        SameVectorsAgree(m)}

(***************************************************************************)
(* app.py: recommendation.                                                 *)
(***************************************************************************)
\* pd.Series(df.index, index=titles): one [label, value] entry per row
title_series(d) ==
    [i \in 1..Len(d.rows) |-> [label |-> d.rows[i].course_title, value |-> i]]

\* Series.drop_duplicates(): drops the entries whose VALUE occurred before
RECURSIVE drop_duplicates(_)
drop_duplicates(s) ==
    IF s = << >> THEN << >>
    ELSE LET init == drop_duplicates(SubSeq(s, 1, Len(s) - 1))
             last == s[Len(s)]
         IN  IF \E k \in 1..Len(init) : init[k].value = last.value
             THEN init
             ELSE Append(init, last)

\* list(enumerate(row))
enumerate(row) == [i \in 1..Len(row) |-> <<i, row[i]>>]

\* an unstable placement: x goes before the elements of equal score
RECURSIVE insert_desc_unstable(_, _)
insert_desc_unstable(l, x) ==
    IF l = << >> THEN <<x>>
    ELSE IF Head(l)[2] > x[2]
    THEN <<Head(l)>> \o insert_desc_unstable(Tail(l), x)
    ELSE <<x>> \o l

\* one step of sorted(key=score, reverse=True): x goes after every element
\* whose score is >= its own (Python's sort is stable, also with reverse)
RECURSIVE insert_desc(_, _)
insert_desc(l, x) ==
    IF l = << >> THEN <<x>>
    ELSE IF Head(l)[2] >= x[2]
    THEN <<Head(l)>> \o insert_desc(Tail(l), x)
    ELSE <<x>> \o l

RECURSIVE sort_prefix(_, _)
sort_prefix(l, n) ==
    IF n = 0 THEN << >> ELSE insert_desc(sort_prefix(l, n - 1), l[n])

\* sorted(sim_scores, key=lambda x: x[1], reverse=True)
sorted_by_score(l) == sort_prefix(l, Len(l))

\* l[a:b] for 0 <= a, 0 <= b
py_slice(l, a, b) == SubSeq(l, a + 1, Min(b, Len(l)))

\* the lookup of titlename ignoring letter case
lookup_ignoring_case(course_index, titlename) ==
    {k \in 1..Len(course_index) : upper(course_index[k].label) = upper(titlename)}

\* the entries of course_index labelled titlename
lookup(course_index, titlename) ==
    {k \in 1..Len(course_index) : course_index[k].label = titlename}

\* recommend_course: [raised, rows, score]; rows are rec_indices
recommend_course(d, titlename, mat, num_rec) ==
    IF "course_title" \notin d.columns
    THEN [raised |-> "KeyError", rows |-> << >>, score |-> << >>]
    ELSE LET course_index == drop_duplicates(title_series(d))
             hits == lookup(course_index, titlename)
         IN  IF hits = {}
             THEN [raised |-> "KeyError", rows |-> << >>, score |-> << >>]
             ELSE IF Cardinality(hits) > 1
             \* course_index[titlename] is a Series; int() of it raises
             THEN [raised |-> "TypeError", rows |-> << >>, score |-> << >>]
             ELSE LET idx == course_index[CHOOSE k \in hits : TRUE].value
                      sim_scores == py_slice(sorted_by_score(enumerate(mat[idx])),
                                             1, num_rec + 1)
                  IN  [raised |-> "none",
                       rows |-> [k \in 1..Len(sim_scores) |-> sim_scores[k][1]],
                       score |-> [k \in 1..Len(sim_scores) |-> sim_scores[k][2]]]

(***************************************************************************)
(* Catalogs and calls of the search and recommendation specifications.     *)
(***************************************************************************)
AppColumns == {"course_title", "url", "price"}

Cpp == <<"C", "+", "+">>

SearchTitles == {Cpp, <<"c", "+">>, <<"C", ".", "c">>, <<"c", " ", "C">>}

TermAlphabet == {"c", "C", "+", ".", " "}

Terms == Strs(TermAlphabet, MaxLen) \cup {None}

RecTitles == {Cpp, <<"c", "+", "+">>}

RecQueries == RecTitles \cup {<<"C", "+">>}

\* the catalogs of at most MaxN records whose titles are in T
Catalogs(T, lo) ==
    {[columns |-> AppColumns,
      rows |-> [i \in 1..Len(t) |-> [course_title |-> t[i]]]] :
        t \in UNION {[1..m -> T] : m \in lo..MaxN}}

\* no call made yet; the functions keep no state between calls, and a
\* behaviour follows one call on the catalog it starts with
NoCall == [op |-> "none"]

NoRet == [raised |-> "none", rows |-> << >>]

NoMat == << >>

SearchInit ==
    /\ df \in Catalogs(SearchTitles, 0)
    /\ cosine_mat = NoMat
    /\ call = NoCall
    /\ ret = NoRet

SearchTerm ==
    \E term \in Terms :
        /\ call = NoCall
        /\ call' = [op |-> "search_term", term |-> term]
        /\ ret' = search_term(term, df)
        /\ UNCHANGED <<df, cosine_mat>>

SearchNext == SearchTerm

SpecSearch == SearchInit /\ [][SearchNext]_vars

RecInit ==
    /\ df \in Catalogs(RecTitles, 1)
    /\ cosine_mat \in CosineMats(Len(df.rows))
    /\ call = NoCall
    /\ ret = [raised |-> "none", rows |-> << >>, score |-> << >>]

RecommendCourse ==
    \E titlename \in RecQueries, num_rec \in 0..MaxK :
        /\ call = NoCall
        /\ call' = [op |-> "recommend_course", titlename |-> titlename,
                    num_rec |-> num_rec]
        /\ ret' = recommend_course(df, titlename, cosine_mat, num_rec)
        /\ UNCHANGED <<df, cosine_mat>>

RecNext == RecommendCourse

SpecRec == RecInit /\ [][RecNext]_vars

(***************************************************************************)
(* app.py: the home route.  A request carries the form fields and the      *)
(* query parameters the handler or the page's form name; an absent field   *)
(* is None.  A DataFrame handed to the template that may be None is a      *)
(* record [is_none, rows, score].                                          *)
(***************************************************************************)
NumRecHome == 10

NoneFrame == [is_none |-> TRUE, rows |-> << >>, score |-> << >>]

Frame(rows, score) == [is_none |-> FALSE, rows |-> rows, score |-> score]

\* Python's `a or b` on values that are a string or None
py_or(a, b) == IF a # None /\ a # << >> THEN a ELSE b

\* titlename as the handler reads it from the request
form_titlename(request) ==
    IF request.method = "POST"
    THEN py_or(request.form.title, request.form.q)
    ELSE py_or(request.args.q, request.args.title)

\* coursemap: title -> {url, price}; a later row of the same title overwrites
build_coursemap(d) ==
    [t \in {d.rows[i].course_title : i \in 1..Len(d.rows)} |->
        LET last == CHOOSE i \in 1..Len(d.rows) :
                        /\ d.rows[i].course_title = t
                        /\ \A j \in 1..Len(d.rows) :
                              d.rows[j].course_title = t => j <= i
        IN  [url |-> d.rows[last].url, price |-> d.rows[last].price]]

\* home: what the handler hands to render_template, or the failure
home(request, d, mat) ==
    LET coursemap == build_coursemap(d)
        titlename == form_titlename(request)
        idle == [status |-> 200, titlename |-> titlename, rec_raised |-> "not called",
                 coursemap |-> coursemap, recommendations |-> NoneFrame,
                 search_results |-> NoneFrame]
    IN  IF titlename = None \/ strip(titlename) = << >>
        THEN idle
        ELSE LET found == search_term(titlename, d)
                 rec == recommend_course(d, titlename, mat, NumRecHome)
             IN  IF found.raised # "none"
                 THEN [idle EXCEPT !.status = 500]
                 ELSE IF rec.raised = "KeyError"
                 THEN [idle EXCEPT !.rec_raised = "KeyError",
                                   !.search_results = Frame(found.rows, << >>)]
                 ELSE IF rec.raised # "none"
                 \* only KeyError is caught
                 THEN [idle EXCEPT !.status = 500, !.rec_raised = rec.raised]
                 ELSE [idle EXCEPT !.rec_raised = "none",
                                   !.search_results = Frame(found.rows, << >>),
                                   !.recommendations = Frame(rec.rows, rec.score)]

(***************************************************************************)
(* The catalog of tests/conftest.py, which the route tests serve.  Its     *)
(* titles share no term, so its similarity matrix is the identity.         *)
(***************************************************************************)
Python == <<"P", "y", "t", "h", "o", "n">>

PythonForBeginners ==
    Python \o <<" ", "f", "o", "r", " ", "B", "e", "g", "i", "n", "n", "e", "r", "s">>

AdvancedExcelAnalytics ==
    <<"A", "d", "v", "a", "n", "c", "e", "d", " ", "E", "x", "c", "e", "l", " ",
      "A", "n", "a", "l", "y", "t", "i", "c", "s">>

Finance101 == <<"F", "i", "n", "a", "n", "c", "e", " ", "1", "0", "1">>

sample_df ==
    [columns |-> AppColumns \cup {"num_subscribers", "level", "published_timestamp", "subject"},
     rows |-> <<
        [course_title |-> PythonForBeginners,
         url |-> "https://example.com/python-beginners", price |-> "10.0"],
        [course_title |-> AdvancedExcelAnalytics,
         url |-> "https://example.com/excel-analytics", price |-> "Free"],
        [course_title |-> Finance101,
         url |-> "https://example.com/finance-101", price |-> "TRUE"] >>]

sample_cosine_mat ==
    cosine_similarity(Len(sample_df.rows), {}, [p \in Pairs(Len(sample_df.rows)) |-> 0])

\* the same catalog with its first course listed a second time
duplicate_df ==
    [sample_df EXCEPT !.rows = Append(@, [course_title |-> PythonForBeginners,
                                           url |-> "https://example.com/python-beginners-2",
                                           price |-> "Free"])]

duplicate_cosine_mat ==
    cosine_similarity(Len(duplicate_df.rows), {},
                      [p \in Pairs(Len(duplicate_df.rows)) |->
                          IF p = <<1, Len(duplicate_df.rows)>> THEN One ELSE 0])

FieldVals ==
    {None, << >>, <<" ">>, Python, upper(PythonForBeginners), PythonForBeginners}

Requests ==
    [method : {"GET", "POST"},
     form : [title : FieldVals, q : FieldVals, course : FieldVals],
     args : [q : FieldVals, title : FieldVals]]

HomeInit ==
    /\ \E loaded \in {<<sample_df, sample_cosine_mat>>,
                       <<duplicate_df, duplicate_cosine_mat>>} :
          df = loaded[1] /\ cosine_mat = loaded[2]
    /\ call = NoCall
    /\ ret = [status |-> 0]

Home ==
    \E request \in Requests :
        /\ call = NoCall
        /\ call' = [op |-> "home", request |-> request]
        /\ ret' = home(request, df, cosine_mat)
        /\ UNCHANGED <<df, cosine_mat>>

HomeNext == Home

SpecHome == HomeInit /\ [][HomeNext]_vars

(***************************************************************************)
(* dashboard.py: subscribers per subject.  A dict is a sequence of         *)
(* <<key, value>> pairs in insertion order.                                *)
(***************************************************************************)
\* the subjects of the catalogs, in the order groupby sorts its keys
Subjects == <<"Business", "Design">>

RECURSIVE sum_over(_, _, _)
\* the sum of f[i] over the positions i..n
sum_over(f, i, n) == IF i > n THEN 0 ELSE f[i] + sum_over(f, i + 1, n)

\* groupby(...).size() of one group: the number of its rows
group_size(d, col, key) ==
    Cardinality({i \in 1..Len(d.rows) : d.rows[i][col] = key})

\* groupby(col)["num_subscribers"].sum() of one group
group_sum(d, col, key) ==
    sum_over([i \in 1..Len(d.rows) |->
                 IF d.rows[i][col] = key THEN d.rows[i].num_subscribers ELSE 0],
             1, Len(d.rows))

\* the keys of groupby(col), sorted; rows whose key is NaN belong to no group
RECURSIVE group_keys(_, _, _, _)
group_keys(d, col, order, k) ==
    IF k > Len(order) THEN << >>
    ELSE (IF \E i \in 1..Len(d.rows) : d.rows[i][col] = order[k]
          THEN <<order[k]>> ELSE << >>) \o group_keys(d, col, order, k + 1)

\* get_value_counts: the dict, sorted by descending sum
get_value_counts(d) ==
    IF "subject" \notin d.columns \/ "num_subscribers" \notin d.columns
    THEN << >>
    ELSE LET keys == group_keys(d, "subject", Subjects, 1)
             series == [k \in 1..Len(keys) |-> <<keys[k], group_sum(d, "subject", keys[k])>>]
         IN  sorted_by_score(series)

(***************************************************************************)
(* dashboard.py: profit per year and month.  A number is a decimal         *)
(* [m, e] standing for m / 10^e, kept without trailing zeros.              *)
(***************************************************************************)
Digits == <<"0", "1", "2", "3", "4", "5", "6", "7", "8", "9">>

IsDigit(ch) == \E k \in 1..Len(Digits) : Digits[k] = ch

DigitVal(ch) == (CHOOSE k \in 1..Len(Digits) : Digits[k] = ch) - 1

Dec(m, e) == [m |-> m, e |-> e]

NotANumber == [m |-> -1, e |-> -1]

RECURSIVE norm(_)
norm(x) == IF x.e > 0 /\ x.m % 10 = 0 THEN norm(Dec(x.m \div 10, x.e - 1)) ELSE x

RECURSIVE pow10(_)
pow10(e) == IF e = 0 THEN 1 ELSE 10 * pow10(e - 1)

add(x, y) ==
    LET e == IF x.e > y.e THEN x.e ELSE y.e
    IN  norm(Dec(x.m * pow10(e - x.e) + y.m * pow10(e - y.e), e))

mul_int(x, n) == norm(Dec(x.m * n, x.e))

StartsWith(s, w) == Len(s) >= Len(w) /\ SubSeq(s, 1, Len(w)) = w

\* str.replace(r"TRUE|Free", "0", regex=True)
RECURSIVE replace_sentinels(_)
replace_sentinels(s) ==
    IF s = << >> THEN << >>
    ELSE IF StartsWith(s, <<"T", "R", "U", "E">>) \/ StartsWith(s, <<"F", "r", "e", "e">>)
    THEN <<"0">> \o replace_sentinels(SubSeq(s, 5, Len(s)))
    ELSE <<Head(s)>> \o replace_sentinels(Tail(s))

\* str.replace(r"[^\d\.]", "", regex=True)
RECURSIVE keep_digits_and_dots(_)
keep_digits_and_dots(s) ==
    IF s = << >> THEN << >>
    ELSE (IF IsDigit(Head(s)) \/ Head(s) = "." THEN <<Head(s)>> ELSE << >>)
         \o keep_digits_and_dots(Tail(s))

RECURSIVE digits_value(_)
digits_value(s) ==
    IF s = << >> THEN 0
    ELSE 10 * digits_value(SubSeq(s, 1, Len(s) - 1)) + DigitVal(s[Len(s)])

\* pd.to_numeric(errors="coerce") on a string of digits and dots
to_numeric(s) ==
    LET dots == {k \in 1..Len(s) : s[k] = "."}
    IN  IF Cardinality(dots) > 1 \/ Len(s) - Cardinality(dots) = 0
        THEN NotANumber
        ELSE IF dots = {}
        THEN Dec(digits_value(s), 0)
        ELSE LET k == CHOOSE k \in dots : TRUE
             IN  norm(Dec(digits_value(SubSeq(s, 1, k - 1) \o SubSeq(s, k + 1, Len(s))),
                          Len(s) - k))

\* .fillna(0.0)
fillna(x) == IF x = NotANumber THEN Dec(0, 0) ELSE x

\* the price column after coercion
coerce_price(s) == fillna(to_numeric(keep_digits_and_dots(replace_sentinels(s))))

NaT == [Year |-> 0, Month |-> 0]

\* split("T")[0] and pd.to_datetime(format="%Y-%m-%d", errors="coerce"), by
\* the timestamps of the catalogs: the date's year and month, or NaT
to_datetime(ts) ==
    CASE ts = "2019-01-01T00:00:00Z" -> [Year |-> 2019, Month |-> 1]
      [] ts = "2020-01-20T00:00:00Z" -> [Year |-> 2020, Month |-> 1]
      [] ts = "2020-05-10T00:00:00Z" -> [Year |-> 2020, Month |-> 5]
      [] OTHER -> NaT

month_order ==
    <<"January", "February", "March", "April", "May", "June",
      "July", "August", "September", "October", "November", "December">>

Years == <<2019, 2020>>

RECURSIVE dec_sum(_, _, _)
dec_sum(f, i, n) == IF i > n THEN Dec(0, 0) ELSE add(f[i], dec_sum(f, i + 1, n))

\* year_wise_profit: the coerced columns and the four dicts
year_wise_profit(d) ==
    LET n == Len(d.rows)
        price == [i \in 1..n |-> coerce_price(d.rows[i].price)]
        profit == [i \in 1..n |-> mul_int(price[i], d.rows[i].num_subscribers)]
        date == [i \in 1..n |-> to_datetime(d.rows[i].published_timestamp)]
        \* time_df: the rows with a valid date
        timed == {i \in 1..n : date[i] # NaT}
        InYear(y) == {i \in timed : date[i].Year = y}
        InMonth(m) == {i \in timed : date[i].Month = m}
        Profit(rows) == dec_sum([i \in 1..n |-> IF i \in rows THEN profit[i] ELSE Dec(0, 0)], 1, n)
        Subs(rows) == sum_over([i \in 1..n |-> IF i \in rows THEN d.rows[i].num_subscribers ELSE 0], 1, n)
        years == positions_where([k \in 1..Len(Years) |-> InYear(Years[k]) # {}], 1, Len(Years))
        months == positions_where([m \in 1..Len(month_order) |-> InMonth(m) # {}], 1, Len(month_order))
    IN  [price |-> price,
         profit |-> profit,
         profitmap |-> [k \in 1..Len(years) |-> <<Years[years[k]], Profit(InYear(Years[years[k]]))>>],
         subscribersmap |-> [k \in 1..Len(years) |-> <<Years[years[k]], Subs(InYear(Years[years[k]]))>>],
         profitmonthwise |-> [k \in 1..Len(months) |-> <<month_order[months[k]], Profit(InMonth(months[k]))>>],
         monthwisesub |-> [k \in 1..Len(months) |-> <<month_order[months[k]], Subs(InMonth(months[k]))>>]]

(***************************************************************************)
(* Catalogs and calls of the dashboard specifications.                     *)
(***************************************************************************)
DashColumns == {"course_title", "url", "price", "num_subscribers", "level",
                "published_timestamp", "subject"}

SubjectVals == {NaN} \cup {Subjects[k] : k \in 1..Len(Subjects)}

\* a catalog without the subject column has no subject in any row
DashCatalogs ==
    {[columns |-> DashColumns, rows |-> rows] :
        rows \in UNION {[1..n -> [subject : SubjectVals, num_subscribers : 0..MaxSubs]] :
                            n \in 0..MaxN}}
    \cup
    {[columns |-> DashColumns \ {"subject"}, rows |-> rows] :
        rows \in UNION {[1..n -> [subject : {NaN}, num_subscribers : 0..MaxSubs]] :
                            n \in 0..MaxN}}

DashInit ==
    /\ df \in DashCatalogs
    /\ cosine_mat = NoMat
    /\ call = NoCall
    /\ ret = << >>

GetValueCounts ==
    /\ call = NoCall
    /\ call' = [op |-> "get_value_counts"]
    /\ ret' = get_value_counts(df)
    /\ UNCHANGED <<df, cosine_mat>>

DashNext == GetValueCounts

SpecDash == DashInit /\ [][DashNext]_vars

Free == <<"F", "r", "e", "e">>

PriceExamples ==
    {<<"1", "0", ".", "0">>, Free, <<"T", "R", "U", "E">>, <<"$", "1", "2", ".", "9", "9">>}

PriceAlphabet == {"0", "1", ".", "x"}

PriceStrings == PriceExamples \cup Strs(PriceAlphabet, MaxPriceLen)

Timestamps == {"2019-01-01T00:00:00Z", "2020-01-20T00:00:00Z", "2020-05-10T00:00:00Z", "nan"}

ProfitRows ==
    [price : PriceStrings, num_subscribers : 0..MaxSubs, published_timestamp : Timestamps]

\* one record of any price, alone or followed by a record of a known price
ProfitCatalogs ==
    {[columns |-> DashColumns, rows |-> <<r>>] : r \in ProfitRows}
    \cup
    {[columns |-> DashColumns, rows |-> <<r, s>>] :
        r \in ProfitRows,
        s \in [price : PriceExamples, num_subscribers : {MaxSubs},
               published_timestamp : {"2019-01-01T00:00:00Z"}]}

ProfitInit ==
    /\ df \in ProfitCatalogs
    /\ cosine_mat = NoMat
    /\ call = NoCall
    /\ ret = << >>

YearWiseProfit ==
    /\ call = NoCall
    /\ call' = [op |-> "year_wise_profit"]
    /\ ret' = year_wise_profit(df)
    /\ UNCHANGED <<df, cosine_mat>>

ProfitNext == YearWiseProfit

SpecProfit == ProfitInit /\ [][ProfitNext]_vars

(***************************************************************************)
(* Properties of search_term, checked under SpecSearch.                    *)
(***************************************************************************)
N == Len(df.rows)

Title(i) == df.rows[i].course_title

Elems(s) == {s[k] : k \in 1..Len(s)}

Increasing(s) == \A k, l \in 1..Len(s) : k < l => s[k] < s[l]

\* a and b are the same character, or the two cases of one letter
SameLetter(a, b) ==
    \/ a = b
    \/ \E i \in 1..Len(LowerCase) : {a, b} = {LowerCase[i], UpperCase[i]}

\* q occurs in t as a literal substring, letter case ignored
ContainsIgnoringCase(t, q) ==
    \E off \in 0..(Len(t) - Len(q)) :
        \A k \in 1..Len(q) : SameLetter(t[off + k], q[k])

Blank(term) == term = None \/ \A k \in 1..Len(term) : term[k] \in Whitespace

Searched == call.op = "search_term"

\* C3: for a term that is neither null nor blank, search_term raises nothing
\* and returns exactly the records whose title contains the term as a literal
\* substring, letter case ignored, in catalog order and all of them.
C3_SearchExact ==
    (Searched /\ ~Blank(call.term)) =>
        /\ ret.raised = "none"
        /\ Increasing(ret.rows)
        /\ \A i \in 1..N :
              i \in Elems(ret.rows) <=> ContainsIgnoringCase(Title(i), call.term)

C3_Witness ==
    /\ Searched
    /\ call.term = <<"c", "+">>
    /\ Len(ret.rows) >= 2
    /\ \E i \in Elems(ret.rows) : Title(i) = Cpp
    /\ \E i \in 1..N : i \notin Elems(ret.rows)

\* C4: for a null, empty or whitespace-only term, search_term raises nothing
\* and returns no record.
C4_BlankTermEmpty ==
    (Searched /\ Blank(call.term)) => (ret.raised = "none" /\ ret.rows = << >>)

C4_Witness ==
    /\ Searched
    /\ call.term = <<" ", " ">>
    /\ \E i \in 1..N : str_in(<<" ">>, Title(i))
    /\ ret.rows = << >>

(***************************************************************************)
(* Properties of recommend_course, checked under SpecRec.                  *)
(***************************************************************************)
Recommended == call.op = "recommend_course"

RowsTitled(t) == {i \in 1..N : Title(i) = t}

\* the first record, in catalog order, titled t
FirstTitled(t) == CHOOSE i \in RowsTitled(t) : \A j \in RowsTitled(t) : i <= j

\* C1: recommend_course never returns the row of the queried record.
C1_NeverReturnsQueryRow ==
    (Recommended /\ ret.raised = "none") =>
        FirstTitled(call.titlename) \notin Elems(ret.rows)

\* C2: with two or more records titled as the query, the call succeeds and
\* the scores are those of the similarity row of the first such record.
C2_FirstOccurrenceWins ==
    (Recommended /\ Cardinality(RowsTitled(call.titlename)) >= 2) =>
        /\ ret.raised = "none"
        /\ \A k \in 1..Len(ret.rows) :
              ret.score[k] = cosine_mat[FirstTitled(call.titlename)][ret.rows[k]]

\* C6: the returned records are in non-increasing order of score, records of
\* equal score in ascending catalog position, and each score is the matrix
\* entry (query row, record's row).
C6_OrderedByScore ==
    (Recommended /\ ret.raised = "none") =>
        /\ Len(ret.score) = Len(ret.rows)
        /\ \A k \in 1..Len(ret.rows) :
              ret.score[k] = cosine_mat[FirstTitled(call.titlename)][ret.rows[k]]
        /\ \A k, l \in 1..Len(ret.rows) :
              k < l => \/ ret.score[k] > ret.score[l]
                       \/ ret.score[k] = ret.score[l] /\ ret.rows[k] < ret.rows[l]

C6_Witness ==
    /\ Recommended
    /\ ret.raised = "none"
    /\ Len(ret.rows) = 2
    /\ ret.score[1] = ret.score[2]
    /\ ret.score[1] = 1

\* C7: for a query that is the title of a record, recommend_course returns
\* exactly min(num_rec, N-1) records and does not raise.
C7_ReturnsMinK ==
    (Recommended /\ RowsTitled(call.titlename) # {}) =>
        /\ ret.raised = "none"
        /\ Len(ret.rows) = Min(call.num_rec, N - 1)

(***************************************************************************)
(* Properties of the home route, checked under SpecHome.                   *)
(***************************************************************************)
Homed == call.op = "home"

\* C5: the lookup of titlename raises KeyError exactly when no record's title
\* equals titlename, letter case included; the handler then completes with
\* no recommendations and with the keyword search results.
C5_NotFoundRecoverable ==
    (Homed /\ ~Blank(ret.titlename)) =>
        /\ ret.rec_raised = "KeyError" <=> RowsTitled(ret.titlename) = {}
        /\ ret.rec_raised = "KeyError" =>
              /\ ret.status = 200
              /\ ret.recommendations.is_none
              /\ ~ret.search_results.is_none
              /\ Increasing(ret.search_results.rows)
              /\ \A i \in 1..N :
                    i \in Elems(ret.search_results.rows)
                        <=> ContainsIgnoringCase(Title(i), ret.titlename)

C5_Witness ==
    /\ Homed
    /\ ret.titlename = upper(PythonForBeginners)
    /\ ret.rec_raised = "KeyError"
    /\ ret.status = 200
    /\ ret.search_results.rows = <<1, 4>>

\* C8: a POST whose form carries the term in the field `course`, and nothing
\* else, runs the keyword search with that term: the search results handed
\* to the template hold every course whose title contains the term.
C8_CourseFieldSearched ==
    (/\ Homed
     /\ call.request.method = "POST"
     /\ call.request.form = [title |-> None, q |-> None, course |-> Python]
     /\ call.request.args = [q |-> None, title |-> None]) =>
        /\ ~ret.search_results.is_none
        /\ \A i \in 1..N :
              ContainsIgnoringCase(Title(i), Python) => i \in Elems(ret.search_results.rows)

(***************************************************************************)
(* Properties of get_value_counts, checked under SpecDash.                 *)
(***************************************************************************)
Counted == call.op = "get_value_counts"

RECURSIVE SubscribersOf(_)
\* the sum of num_subscribers over a set of catalog positions
SubscribersOf(S) ==
    IF S = {} THEN 0
    ELSE LET i == CHOOSE i \in S : TRUE
         IN  df.rows[i].num_subscribers + SubscribersOf(S \ {i})

RECURSIVE ValuesTotal(_)
\* the sum of the values of a dict
ValuesTotal(dict) ==
    IF dict = << >> THEN 0 ELSE Head(dict)[2] + ValuesTotal(Tail(dict))

HasSubject(i) == "subject" \in df.columns /\ df.rows[i].subject # NaN

WithSubject(sub) == {i \in 1..N : HasSubject(i) /\ df.rows[i].subject = sub}

EachKeySumsItsSubject ==
    /\ \A k, l \in 1..Len(ret) : ret[k][1] = ret[l][1] => k = l
    /\ \A k \in 1..Len(ret) : ret[k][2] = SubscribersOf(WithSubject(ret[k][1]))

\* C9 as claimed: for a catalog that has the subject column, the values of
\* get_value_counts add up to the sum of num_subscribers over all records,
\* those of a missing subject included, and each key's value is the sum over
\* the records of that subject.
C9_TotalOverAllRecords ==
    (Counted /\ "subject" \in df.columns) =>
        /\ ValuesTotal(ret) = SubscribersOf(1..N)
        /\ EachKeySumsItsSubject

\* C9 as amended: the values of get_value_counts add up to the sum of
\* num_subscribers over the records that have a subject (a record whose
\* subject is missing is in no group); the keys are the subjects that occur,
\* and each key's value is the sum over the records of that subject.
C9_TotalOverRecordsWithSubject ==
    Counted =>
        /\ ValuesTotal(ret) = SubscribersOf({i \in 1..N : HasSubject(i)})
        /\ {ret[k][1] : k \in 1..Len(ret)} = {df.rows[i].subject : i \in {j \in 1..N : HasSubject(j)}}
        /\ EachKeySumsItsSubject

C9_Witness ==
    /\ Counted
    /\ Len(ret) = 2
    /\ \E i \in 1..N : ~HasSubject(i) /\ df.rows[i].num_subscribers > 0
    /\ ValuesTotal(ret) > 0
    /\ ValuesTotal(ret) < SubscribersOf(1..N)

(***************************************************************************)
(* Properties of year_wise_profit, checked under SpecProfit.               *)
(***************************************************************************)
Profited == call.op = "year_wise_profit"

\* digits with at most one decimal point, and at least one digit
PlainDecimal(s) ==
    /\ \A k \in 1..Len(s) : IsDigit(s[k]) \/ s[k] = "."
    /\ Cardinality({k \in 1..Len(s) : s[k] = "."}) <= 1
    /\ \E k \in 1..Len(s) : IsDigit(s[k])

\* a plain decimal number, optionally prefixed by a currency symbol
ParseableNumber(s) ==
    \/ PlainDecimal(s)
    \/ s # << >> /\ Head(s) = "$" /\ PlainDecimal(Tail(s))

\* C10: price coercion maps "10.0" to 10.0 and "$12.99" to 12.99, and maps
\* every price string that is not parseable as a number to 0.0, so that the
\* record contributes zero profit.
C10_UnparseablePriceIsZero ==
    Profited =>
        \A i \in 1..N :
            LET p == df.rows[i].price
            IN  /\ p = <<"1", "0", ".", "0">> => ret.price[i] = Dec(10, 0)
                /\ p = <<"$", "1", "2", ".", "9", "9">> => ret.price[i] = Dec(1299, 2)
                /\ ~ParseableNumber(p) =>
                      ret.price[i] = Dec(0, 0) /\ ret.profit[i] = Dec(0, 0)

====
